---- MODULE Spec2Model ----
(***************************************************************************)
(* A model of the evaluation oracles of bisect_b2g:                        *)
(*   src/bisect_b2g/evaluator.py  InteractiveEvaluator,                    *)
(*                                InteractiveBuildEvaluator                *)
(* An evaluator object is constructed once and then asked, one call at a   *)
(* time, for a verdict.  The program counter pc follows one call through   *)
(* the places where it blocks: the debugger breakpoint, the monitored      *)
(* build, the interactive shell session.                                   *)
(*                                                                         *)
(* Strings whose characters matter (the build environment list) are        *)
(* sequences of one-character strings; a Python dict is a set of           *)
(* <<key, value>> pairs with one pair per key.                             *)
(***************************************************************************)
EXTENDS Integers, Sequences, FiniteSets, TLC

\* ------------------------------------------------------------- bounds
\* evaluate calls made on one evaluator object
MaxCalls == 3
\* output lines one build emits
MaxLines == 2
\* length of the build environment string
MaxEnvLen == 7
\* the whole seconds of a build followed by the clock
MaxTime == 12

\* ---------------------------------------------------- program constants
GOOD == 69
BAD == 96
\* the progress indicator: int(elapsed seconds) % 10 == 0
Cadence == 10

\* exit codes an interactive shell session can end with (negative: killed
\* by a signal, as subprocess.call reports it)
Codes == {-9, 0, 1, 68, 69, 70, 95, 96, 97, 255}
\* exit codes of a build that ends by itself
BuildCodes == {0, 1}
\* the status of a build killed on timeout (SIGKILL, SIGTERM)
KilledCodes == {-9, -15}
\* the lines a build can emit
Lines == {"l1", "l2"}
TimeoutMarker == "BUILD TIMED OUT"
\* characters of an environment string
EnvChars == {"A", "B", "=", ","}
EnvStrings == UNION {[1..n -> EnvChars] : n \in 0..MaxEnvLen}
None == "None"

VARIABLES
  pc,           \* where the program is: "new", "noobj", "idle", "pdb", "run",
                \* "eval", "shell", "cmd", "child", "aborted", "exited",
                \* "exit2", "made", "parsed"
  cls,          \* class of the evaluator object
  arg,          \* the build_info the constructor was called with
  build_info,   \* self.build_info
  build_number, \* self.build_number
  log_open,     \* self.log_open
  build_log,    \* self.build_log: index into handles, 0 = attribute not set
  handles,      \* every file object open() has returned: [name, open]
  logs,         \* content of build_<n>.log, a sequence of lines
  created,      \* the n for which build_<n>.log exists
  rcfiles,      \* the temporary rc files that exist
  rcfile,       \* the rc file of the current call, 0 = none
  proc,         \* the monitored build: "none", "running", "timedout", "finished"
  status,       \* exit status of the build process, <<>> while it runs
  exitcode,     \* the local exitcode of perform_build, <<>> while unbound
  result,       \* how the last call ended: a returned value or an exception
  calls,        \* evaluate calls started so far
  openAtStart,  \* open handles when the current call started
  delivered,    \* lines the monitor has handed to notify_status in this build
  timeouts,     \* notify_timeout invocations in this build
  finishes,     \* notify_finished invocations in this build
  intr,         \* the interrupt raised during this build, or "none"
  sessionCall,  \* the call that started the latest interactive session
  code,         \* exit code of this call's session, <<>> before it ends
  report,       \* what perform_build printed about the build's outcome
  children,     \* child processes run_cmd has spawned in this call
  elapsed,      \* whole seconds since self.start_time
  dots,         \* progress indicators written to stdout in this build
  opts,         \* the options driver.main parsed
  arg_data,     \* the dictionary handed to make_arg
  made,         \* what make_arg returned or raised
  parsed        \* what parse_arg returned or raised for it

obj == <<cls, arg, build_info, build_number, log_open, build_log>>
fs == <<handles, logs, created, rcfiles>>
mon == <<proc, status, delivered, timeouts, finishes>>
call == <<rcfile, exitcode, openAtStart, intr, sessionCall, code, report>>
run == <<children, elapsed, dots>>
drv == <<opts, arg_data, made, parsed>>
vars == <<pc, obj, fs, mon, call, result, calls, run, drv>>

\* ------------------------------------------------------------ strings
\* str.split(sep) for a one-character separator
RECURSIVE split(_, _)
split(s, sep) ==
  IF \A i \in 1..Len(s) : s[i] # sep
    THEN <<s>>
    ELSE LET i == CHOOSE k \in 1..Len(s) :
                    s[k] = sep /\ \A j \in 1..(k - 1) : s[j] # sep
         IN  <<SubSeq(s, 1, i - 1)>> \o split(SubSeq(s, i + 1, Len(s)), sep)

\* edict[k] = v
DictPut(d, k, v) == {e \in d : e[1] # k} \cup {<<k, v>>}

\* the value stored for one entry p: p.split('=')[1]
EntryValue_First(kv) == kv[1]
EntryValue(kv) == kv[2]

\* for p in elist: edict[p.split('=')[0]] = p.split('=')[1]
\* err: an entry without '=' makes p.split('=')[1] raise IndexError
RECURSIVE ParseEnvLoop(_, _)
ParseEnvLoop(elist, edict) ==
  IF elist = <<>>
    THEN [err |-> FALSE, env |-> edict]
    ELSE LET kv == split(Head(elist), "=")
         IN  IF Len(kv) < 2
               THEN [err |-> TRUE, env |-> edict]
               ELSE ParseEnvLoop(Tail(elist), DictPut(edict, kv[1], EntryValue(kv)))

ParseEnv(s) == ParseEnvLoop(split(s, ","), {})

\* a value of build_info['env']: None, a string, or the parsed dictionary
EnvNone == [kind |-> "none", str |-> <<>>, dict |-> {}]
EnvStr(s) == [kind |-> "str", str |-> s, dict |-> {}]
EnvDict(d) == [kind |-> "dict", str |-> <<>>, dict |-> d]
\* a build_info argument; given = FALSE: no build_info (None)
NoBuildInfo == [given |-> FALSE, logdir |-> None, env |-> EnvNone]
BuildInfo(ld, e) == [given |-> TRUE, logdir |-> ld, env |-> e]

\* the options of driver.main; interactive and do_builds are store_true
\* options (FALSE: None), the others None or the string given
Options(sc, i, b, wd, ld, e) ==
  [script |-> sc, interactive |-> i, do_builds |-> b, build_workdir |-> wd,
   build_logdir |-> ld, build_env |-> e]
NoOptions == Options(None, FALSE, FALSE, None, None, EnvNone)
\* the dictionary parse_arg returns and make_arg reads
ArgData(u, lp, n, v, g, b) ==
  [uri |-> u, local_path |-> lp, name |-> n, vcs |-> v, good |-> g, bad |-> b]
NoArgData == ArgData(<<>>, <<>>, <<>>, None, <<>>, <<>>)
\* a returned value or the exception raised instead
Returned(v) == [err |-> "none", val |-> v]
Raised(e, v) == [err |-> e, val |-> v]
\* the function has not been called yet
NotCalled(v) == [err |-> "notcalled", val |-> v]

\* the part of the state the evaluators do not touch
InitDriver ==
  /\ opts = NoOptions
  /\ arg_data = NoArgData
  /\ made = NotCalled(<<>>)
  /\ parsed = NotCalled(NoArgData)

\* ------------------------------------------------------------ Init
\* no evaluator has been constructed
InitEvaluator ==
  /\ children = 0
  /\ elapsed = 0
  /\ dots = 0
  /\ pc = "new"
  /\ cls = None
  /\ arg = NoBuildInfo
  /\ build_info = NoBuildInfo
  /\ build_number = 0
  /\ log_open = FALSE
  /\ build_log = 0
  /\ handles = <<>>
  /\ logs = [n \in 1..MaxCalls |-> <<>>]
  /\ created = {}
  /\ rcfiles = {}
  /\ result = "none"
  /\ calls = 0
  /\ rcfile = 0
  /\ proc = "none"
  /\ status = <<>>
  /\ exitcode = <<>>
  /\ openAtStart = 0
  /\ delivered = <<>>
  /\ timeouts = 0
  /\ finishes = 0
  /\ intr = "none"
  /\ sessionCall = 0
  /\ code = <<>>
  /\ report = "none"

Init == InitDriver /\ InitEvaluator

\* ------------------------------------------------------ construction
\* InteractiveEvaluator.__init__
NewInteractive ==
  /\ pc = "new"
  /\ pc' = "idle"
  /\ cls' = "InteractiveEvaluator"
  /\ UNCHANGED <<run, drv, arg, build_info, build_number, log_open, build_log, fs, mon,
                 call, result, calls>>

\* ScriptEvaluator.__init__(script)
NewScript ==
  /\ pc = "new"
  /\ pc' = "idle"
  /\ cls' = "ScriptEvaluator"
  /\ UNCHANGED <<run, drv, arg, build_info, build_number, log_open, build_log,
                 fs, mon, call, result, calls>>

\* __init__ without build_info (None and {} are both false), lines 117-120:
\* the defaults are stored through self.build_info[...], an attribute that
\* does not exist yet, so the first of the three assignments raises
NoConfigOutcome_Defaults == "none"
NoConfigOutcome == "AttributeError"

\* InteractiveBuildEvaluator.__init__(build_info)
NewInteractiveBuild(bi) ==
  /\ pc = "new"
  /\ cls' = "InteractiveBuildEvaluator"
  /\ arg' = bi
  /\ build_number' = 0
  /\ log_open' = FALSE
  /\ IF ~bi.given
       THEN IF NoConfigOutcome = "none"
              THEN \* an evaluator on the current directory and environment
                   /\ pc' = "idle"
                   /\ build_info' = BuildInfo(None, EnvNone)
                   /\ UNCHANGED result
              ELSE /\ pc' = "noobj"
                   /\ result' = NoConfigOutcome
                   /\ UNCHANGED build_info
       ELSE IF bi.env.kind = "none" \/ bi.env.str = <<>>
         THEN \* if self.build_info['env']: None and '' are false
              /\ pc' = "idle"
              /\ build_info' = bi
              /\ UNCHANGED result
         ELSE LET p == ParseEnv(bi.env.str)
              IN  IF p.err
                    THEN /\ pc' = "noobj"
                         /\ result' = "IndexError"
                         /\ build_info' = bi
                    ELSE /\ pc' = "idle"
                         /\ build_info' = [bi EXCEPT !.env = EnvDict(p.env)]
                         /\ UNCHANGED result
  /\ UNCHANGED <<run, drv, build_log, fs, mon, call, calls>>

\* the build_info arguments of the life-cycle specification: absent, or the
\* dictionary driver.main builds (logdir and env None unless the option is
\* given)
EnvAB == <<"A", "=", "B">>
BuildInfos ==
  {NoBuildInfo} \cup
  {BuildInfo(ld, e) : ld \in {None, "logs"}, e \in {EnvNone, EnvStr(EnvAB)}}

\* ------------------------------------------------------------ files
OpenCount(hs) == Cardinality({i \in 1..Len(hs) : hs[i].open})

\* file.close(): closing a closed file is allowed
CloseLog_Leak(hs, bl) == hs
CloseLog(hs, bl) == [hs EXCEPT ![bl].open = FALSE]

\* os.unlink(rcfile) when os.path.exists(rcfile)
Unlink(files, f) == files \ {f}

\* -------------------------------------------------- the observers
\* What a callback does to the log state.  err is the exception it raises
\* ("none": it returns); the other fields are the state it leaves behind.
LogState(e, hs, bl, lo, lg, cr) ==
  [err |-> e, handles |-> hs, build_log |-> bl, log_open |-> lo, logs |-> lg,
   created |-> cr]

\* build_log.write(text): ValueError on a closed file
Write(st, text) ==
  IF st.handles[st.build_log].open
    THEN [st EXCEPT !.logs[st.handles[st.build_log].name] = Append(@, text)]
    ELSE [st EXCEPT !.err = "ValueError"]

\* the n of 'build_%d.log' % self.build_number
LogName(n) == n

\* InteractiveBuildEvaluator.notify_status(line)
notify_status(line) ==
  LET st0 == LogState("none", handles, build_log, log_open, logs, created)
      opened ==
        IF log_open
          THEN st0
          ELSE IF build_info.logdir = None
            THEN \* os.path.exists(None)
                 [st0 EXCEPT !.err = "TypeError"]
            ELSE \* open(logfile, "w") creates or truncates the file
                 LogState("none",
                          Append(handles, [name |-> LogName(build_number),
                                           open |-> TRUE]),
                          Len(handles) + 1, TRUE,
                          [logs EXCEPT ![LogName(build_number)] = <<>>],
                          created \cup {LogName(build_number)})
  IN  IF opened.err # "none" THEN opened ELSE Write(opened, line)

\* InteractiveBuildEvaluator.notify_timeout(): the marker when the log is
\* open, then self.log.debug, an attribute no class of the module defines
notify_timeout ==
  LET st0 == LogState("none", handles, build_log, log_open, logs, created)
      marked == IF log_open THEN Write(st0, TimeoutMarker) ELSE st0
  IN  IF marked.err # "none" THEN marked ELSE [marked EXCEPT !.err = "AttributeError"]

\* ---------------------------------------------------- the evaluate call
BuildClass == cls = "InteractiveBuildEvaluator"

\* the caller (the bisection) asks the evaluator for a verdict
EvalCall ==
  /\ pc = "idle"
  /\ calls < MaxCalls
  /\ calls' = calls + 1
  /\ pc' = IF BuildClass THEN "pdb"
           ELSE IF cls = "ScriptEvaluator" THEN "cmd"
           ELSE "eval"
  /\ result' = "none"
  /\ openAtStart' = OpenCount(handles)
  /\ rcfile' = 0
  /\ exitcode' = <<>>
  /\ intr' = "none"
  /\ code' = <<>>
  /\ report' = "none"
  /\ proc' = "none"
  /\ status' = <<>>
  /\ delivered' = <<>>
  /\ timeouts' = 0
  /\ finishes' = 0
  /\ children' = 0
  /\ elapsed' = 0
  /\ dots' = 0
  /\ UNCHANGED <<drv, obj, fs, sessionCall>>

\* self.build_number += 1
NextBuildNumber_Same(n) == n
NextBuildNumber(n) == n + 1

\* perform_build up to build_proc.run: the operator resumes the program at
\* the pdb.set_trace() breakpoint, the build is numbered and started
PdbContinue ==
  /\ pc = "pdb"
  /\ build_number' = NextBuildNumber(build_number)
  /\ proc' = "running"
  /\ pc' = "run"
  /\ UNCHANGED <<run, drv, cls, arg, build_info, log_open, build_log, fs, status,
                 delivered, timeouts, finishes, call, result, calls>>

\* the operator quits the debugger at the breakpoint: bdb.BdbQuit unwinds
\* the program before the build is numbered
PdbQuit ==
  /\ pc = "pdb"
  /\ pc' = "aborted"
  /\ result' = "BdbQuit"
  /\ UNCHANGED <<run, drv, obj, fs, mon, call, calls>>

\* ------------------------------------------------- the Process Monitor
\* What the monitor (mozprocess.ProcessHandler) may do next while the
\* caller is blocked in run / processOutput / wait.
MonitorCanDeliver == proc = "running" /\ Len(delivered) < MaxLines
MonitorCanTimeout == proc = "running"
MonitorCanFinish == proc \in {"running", "timedout"}
MonitorCanReturn == proc = "finished"
\* the status of a process that ends: its own exit code, or the signal that
\* killed it after the timeout
EndStatus == IF proc = "timedout" THEN KilledCodes ELSE BuildCodes

\* the exceptions that unwind the whole program instead of failing one call
Aborts == {"KeyboardInterrupt", "SystemExit"}

\* perform_build from the end of the try block on.  e is the exception in
\* flight ("none": build_proc.wait() returned ec), hs and bl the handles and
\* self.build_log at that moment.  finally: self.build_log.close() raises
\* AttributeError in place of e when no line ever set the attribute; without
\* an exception the outcome is printed and the interactive step follows.
LeaveBuild(e, hs, bl, ec) ==
  LET raised == IF bl = 0 THEN "AttributeError" ELSE e
  IN  /\ handles' = IF bl = 0 THEN hs ELSE CloseLog(hs, bl)
      /\ IF raised = "none"
           THEN /\ pc' = "eval"
                /\ report' = IF ec = <<0>> THEN "success" ELSE "failed"
                /\ UNCHANGED result
           ELSE /\ pc' = IF raised \in Aborts THEN "aborted" ELSE "idle"
                /\ result' = raised
                /\ UNCHANGED report

\* A callback has run and left the log state st.  An exception it raised
\* either comes out of the monitor into perform_build (propagate) or stays
\* inside the monitor, and the build goes on.
AfterCallback(st, propagate) ==
  /\ log_open' = st.log_open
  /\ build_log' = st.build_log
  /\ logs' = st.logs
  /\ created' = st.created
  /\ IF st.err # "none" /\ propagate
       THEN LeaveBuild(st.err, st.handles, st.build_log, <<>>)
       ELSE /\ handles' = st.handles
            /\ pc' = "run"
            /\ UNCHANGED <<result, report>>

\* notify_status, lines 172-173: a '.' goes to stdout when the whole seconds
\* since start_time are a multiple of 10; the lines before it must not have
\* raised (os.path.exists(None))
ProgressDue(t) == t % Cadence = 0
ProgressDots ==
  IF (log_open \/ build_info.logdir # None) /\ ProgressDue(elapsed)
    THEN 1
    ELSE 0

\* the build writes a line: processOutputLine = [notify_status]
OutputLine(line, propagate) ==
  /\ pc = "run"
  /\ MonitorCanDeliver
  /\ delivered' = Append(delivered, line)
  /\ AfterCallback(notify_status(line), propagate)
  /\ dots' = dots + ProgressDots
  /\ UNCHANGED <<drv, children, elapsed, cls, arg, build_info, build_number, rcfiles, proc, status,
                 timeouts, finishes, rcfile, exitcode, openAtStart, intr,
                 sessionCall, code, calls>>

\* the 7200 s pass: the process is killed, onTimeout = [notify_timeout]
Timeout(propagate) ==
  /\ pc = "run"
  /\ MonitorCanTimeout
  /\ proc' = "timedout"
  /\ timeouts' = timeouts + 1
  /\ AfterCallback(notify_timeout, propagate)
  /\ UNCHANGED <<run, drv, cls, arg, build_info, build_number, rcfiles, status,
                 delivered, finishes, rcfile, exitcode, openAtStart, intr,
                 sessionCall, code, calls>>

\* the process has ended: onFinish = [notify_finished], which only prints
Finished(c) ==
  /\ pc = "run"
  /\ MonitorCanFinish
  /\ c \in EndStatus
  /\ proc' = "finished"
  /\ status' = <<c>>
  /\ finishes' = finishes + 1
  /\ UNCHANGED <<run, drv, pc, obj, fs, delivered, timeouts, call, result, calls>>

\* exitcode = build_proc.wait(), finally, and the printed outcome
WaitReturns ==
  /\ pc = "run"
  /\ MonitorCanReturn
  /\ exitcode' = status
  /\ LeaveBuild("none", handles, build_log, status)
  /\ UNCHANGED <<run, drv, obj, logs, created, rcfiles, mon, rcfile, openAtStart, intr,
                 sessionCall, code, calls>>

\* KeyboardInterrupt or SystemExit reaches perform_build inside the try
\* block: except prints and re-raises, finally runs
Interrupt(k) ==
  /\ pc = "run"
  /\ k \in Aborts
  /\ intr' = k
  /\ LeaveBuild(k, handles, build_log, <<>>)
  /\ UNCHANGED <<run, drv, obj, logs, created, rcfiles, mon, rcfile, exitcode,
                 openAtStart, sessionCall, code, calls>>

\* --------------------------------------------- the interactive session
\* InteractiveEvaluator.eval up to subprocess.call: generate_script makes a
\* fresh temporary file, and the shell starts
Launch ==
  /\ pc = "eval"
  /\ rcfile' = calls
  /\ rcfiles' = rcfiles \cup {calls}
  /\ sessionCall' = calls
  /\ pc' = "shell"
  /\ UNCHANGED <<run, drv, obj, handles, logs, created, mon, exitcode, openAtStart, intr,
                 code, report, result, calls>>

\* the shell cannot be started (os.environ['SHELL'] is missing or names no
\* program): the exception leaves eval after generate_script has run
LaunchFails(e) ==
  /\ pc = "eval"
  /\ e \in {"KeyError", "OSError"}
  /\ rcfile' = calls
  /\ rcfiles' = rcfiles \cup {calls}
  /\ result' = e
  /\ pc' = "idle"
  /\ UNCHANGED <<run, drv, obj, handles, logs, created, mon, exitcode, openAtStart, intr,
                 sessionCall, code, report, calls>>

\* lines 96-109: the verdict of an exit code
Classify_Coerce(c) ==
  IF c = GOOD THEN "True" ELSE IF c = 0 THEN "exit" ELSE "False"
Classify(c) ==
  IF c = GOOD THEN "True"
  ELSE IF c = BAD THEN "False"
  ELSE IF c = 0 THEN "exit"
  ELSE "EvaluatorError"

\* InteractiveBuildEvaluator.eval calls InteractiveEvaluator.eval and
\* returns nothing: a verdict o becomes None, an exception passes through
InteractiveBuildEvaluator_eval(o) ==
  IF o \in {"True", "False"} THEN "None" ELSE o

\* subprocess.call returns c: the rc file is removed and c is classified
ShellExit(c) ==
  /\ pc = "shell"
  /\ c \in Codes
  /\ code' = <<c>>
  /\ rcfiles' = Unlink(rcfiles, rcfile)
  /\ LET o == Classify(c)
     IN  /\ result' = IF BuildClass THEN InteractiveBuildEvaluator_eval(o) ELSE o
         /\ pc' = IF o = "exit" THEN "exited" ELSE "idle"
  /\ UNCHANGED <<run, drv, obj, handles, logs, created, mon, rcfile, exitcode,
                 openAtStart, intr, sessionCall, report, calls>>

\* KeyboardInterrupt while subprocess.call waits for the shell
ShellInterrupt ==
  /\ pc = "shell"
  /\ result' = "KeyboardInterrupt"
  /\ pc' = "aborted"
  /\ UNCHANGED <<run, drv, obj, fs, mon, call, calls>>

\* ------------------------------------------------- the script evaluator
\* run_cmd(command=self.script, rc_only=True): the Command Runner starts the
\* command as a child process and waits for it
RunCmd ==
  /\ pc = "cmd"
  /\ children' = children + 1
  /\ pc' = "child"
  /\ UNCHANGED <<drv, elapsed, dots, obj, fs, mon, call, result, calls>>

\* return code == 0
ScriptVerdict_Sentinels(c) == IF c \in {0, GOOD} THEN "True" ELSE "False"
ScriptVerdict(c) == IF c = 0 THEN "True" ELSE "False"

\* the child ends with code c, run_cmd returns it and eval returns
ScriptExit(c) ==
  /\ pc = "child"
  /\ c \in Codes
  /\ code' = <<c>>
  /\ result' = ScriptVerdict(c)
  /\ pc' = "idle"
  /\ UNCHANGED <<run, drv, obj, fs, mon, rcfile, exitcode, openAtStart, intr,
                 sessionCall, report, calls>>

\* ------------------------------------------------------ specification
Next ==
  \/ NewInteractive
  \/ NewScript
  \/ RunCmd
  \/ \E c \in Codes : ScriptExit(c)
  \/ \E bi \in BuildInfos : NewInteractiveBuild(bi)
  \/ EvalCall
  \/ PdbContinue
  \/ PdbQuit
  \/ \E line \in Lines, propagate \in BOOLEAN : OutputLine(line, propagate)
  \/ \E propagate \in BOOLEAN : Timeout(propagate)
  \/ \E c \in BuildCodes \cup KilledCodes : Finished(c)
  \/ WaitReturns
  \/ \E k \in Aborts : Interrupt(k)
  \/ Launch
  \/ \E e \in {"KeyError", "OSError"} : LaunchFails(e)
  \/ \E c \in Codes : ShellExit(c)
  \/ ShellInterrupt

Spec == Init /\ [][Next]_vars

\* ------------------------------------------------------------ claims
Range(f) == {f[i] : i \in DOMAIN f}
\* no call is in progress and at least one has been made
CallEnded == calls >= 1 /\ pc \in {"idle", "aborted", "exited"}
\* the current build is over: perform_build has returned or raised
BuildOver == BuildClass /\ calls >= 1 /\ pc \notin {"pdb", "run"}

\* C1: when the shell session of InteractiveEvaluator.eval ends with exit
\* code c, the call returns True iff c = 69, returns False iff c = 96, ends
\* the host process iff c = 0, and raises EvaluatorError for every other c.
C1_ExitCodeVerdict ==
  (cls = "InteractiveEvaluator" /\ CallEnded /\ code # <<>>) =>
    LET c == code[1]
    IN  /\ (result = "True") <=> (c = 69)
        /\ (result = "False") <=> (c = 96)
        /\ (pc = "exited") <=> (c = 0)
        /\ (c \notin {69, 96, 0}) <=> (pc = "idle" /\ result = "EvaluatorError")
        /\ pc # "aborted"

\* C1 witness: a session that ended with 255 made the call raise
C1_Witness ==
  /\ cls = "InteractiveEvaluator"
  /\ pc = "idle"
  /\ code = <<255>>
  /\ result = "EvaluatorError"

\* C2: a Build Evaluator call whose session ends with GOOD returns True and
\* one whose session ends with BAD returns False.
C2_BuildReturnsVerdict ==
  (BuildClass /\ pc = "idle" /\ sessionCall = calls /\ code # <<>>) =>
    /\ (code = <<GOOD>>) => (result = "True")
    /\ (code = <<BAD>>) => (result = "False")

\* C3: once an evaluate call has returned, raised or ended the process, the
\* rc file it created no longer exists.
C3_ScriptRemoved == CallEnded => rcfile \notin rcfiles

\* C4: when a call on the Build Evaluator ends, however it ends, as many log
\* handles are open as when it started.
C4_NoLogHandleLeak ==
  (BuildClass /\ CallEnded) => OpenCount(handles) = openAtStart

\* C4 witness: a build that opened its log was interrupted
C4_Witness ==
  /\ BuildClass
  /\ pc = "aborted"
  /\ intr = "KeyboardInterrupt"
  /\ Len(handles) = 1
  /\ delivered # <<>>

\* C5: while the n-th call's build runs with a log directory configured and
\* at least one line received, build_<n>.log exists, self.build_log is an
\* open handle on it, and it holds the received lines in order.
C5_OwnOpenLog ==
  (BuildClass /\ pc = "run" /\ build_info.logdir # None /\ delivered # <<>>) =>
    /\ build_number = calls
    /\ build_number \in created
    /\ build_log # 0
    /\ handles[build_log].open
    /\ handles[build_log].name = build_number
    /\ SelectSeq(logs[build_number], LAMBDA l : l \in Lines) = delivered

\* C6: build_number is 0 after construction and every evaluate call that
\* gets past the breakpoint adds exactly 1, whatever becomes of the build:
\* the k-th call builds as number k.
C6_BuildNumberCountsCalls ==
  BuildClass =>
    build_number = IF pc = "pdb" \/ (pc = "aborted" /\ result = "BdbQuit")
                     THEN calls - 1
                     ELSE calls

\* C6 witness: the second call timed out and was still numbered 2
C6_Witness ==
  /\ BuildClass
  /\ calls = 2
  /\ build_number = 2
  /\ timeouts = 1
  /\ pc = "idle"

\* C7: when the build timed out (and nobody interrupted it), notify_timeout
\* ran once, the build's log holds the marker line and perform_build
\* returned, so that the interactive session is asked for a verdict.
C7_TimeoutStillAsks ==
  (BuildOver /\ timeouts >= 1 /\ intr = "none") =>
    /\ timeouts = 1
    /\ build_number \in created
    /\ TimeoutMarker \in Range(logs[build_number])
    /\ report # "none"

\* C8: a build ended by an interrupt leaves no log handle open, raises that
\* very interrupt to the caller and starts no interactive session.
C8_InterruptPropagates ==
  (BuildOver /\ intr # "none") =>
    /\ OpenCount(handles) = 0
    /\ pc = "aborted"
    /\ result = intr
    /\ sessionCall # calls

\* C9: when the build process ended by itself with a nonzero exit code,
\* perform_build reports the failure and returns, and the verdict is the
\* one the session gives: GOOD after a failed build is True.
C9_FailedBuildStillAsks ==
  (BuildOver /\ proc = "finished" /\ timeouts = 0 /\ intr = "none"
     /\ status # <<0>>) =>
    /\ report = "failed"
    /\ (pc = "idle" /\ code = <<GOOD>>) => (result = "True")

\* ------------------------------------- the environment string, C10
\* Construction from every environment string up to MaxEnvLen, followed by
\* the start of a call and of its build.
NextEnv ==
  \/ /\ pc = "new"
     /\ \E s \in EnvStrings : NewInteractiveBuild(BuildInfo("logs", EnvStr(s)))
  \/ EvalCall
  \/ PdbContinue

SpecEnv == Init /\ [][NextEnv]_vars

\* The entries of an environment string, read off the string itself: the
\* spans <<i, j>> (j = i - 1: empty) between the ends of s and its commas.
EntrySpans(s) ==
  {sp \in (1..(Len(s) + 1)) \X (0..Len(s)) :
     /\ sp[2] >= sp[1] - 1
     /\ \A k \in sp[1]..sp[2] : s[k] # ","
     /\ sp[1] = 1 \/ s[sp[1] - 1] = ","
     /\ sp[2] = Len(s) \/ s[sp[2] + 1] = ","}
EqualsIn(s, sp) == {k \in sp[1]..sp[2] : s[k] = "="}
\* key=value[,key=value...]: every entry holds exactly one "="
IsKeyValueList(s) ==
  s # <<>> /\ \A sp \in EntrySpans(s) : Cardinality(EqualsIn(s, sp)) = 1
HasEntryWithoutEquals(s) ==
  s # <<>> /\ \E sp \in EntrySpans(s) : EqualsIn(s, sp) = {}
KeyOf(s, sp) ==
  LET e == CHOOSE k \in EqualsIn(s, sp) : TRUE IN SubSeq(s, sp[1], e - 1)
ValueOf(s, sp) ==
  LET e == CHOOSE k \in EqualsIn(s, sp) : TRUE IN SubSeq(s, e + 1, sp[2])
\* each key with the value of its last entry
MappingOf(s) ==
  {<<KeyOf(s, sp), ValueOf(s, sp)>> : sp \in
     {sp \in EntrySpans(s) :
        \A later \in EntrySpans(s) :
          later[1] > sp[1] => KeyOf(s, later) # KeyOf(s, sp)}}

\* C10: a key=value[,key=value...] string (one "=" in every entry) leaves
\* the constructed evaluator with the mapping of each key to its value; a
\* string with an entry that has no "=" makes the constructor raise, and no
\* call and no build is ever started on it.
C10_EnvironmentParsed ==
  (BuildClass /\ arg.env.kind = "str") =>
    LET s == arg.env.str
    IN  /\ IsKeyValueList(s) =>
             /\ pc # "noobj"
             /\ build_info.env = EnvDict(MappingOf(s))
        /\ HasEntryWithoutEquals(s) =>
             /\ pc = "noobj"
             /\ result = "IndexError"
             /\ calls = 0
             /\ proc = "none"

\* C10 witness: "A=B,B=A" has become {A: "B", B: "A"} and a build runs
C10_Witness ==
  /\ arg.env = EnvStr(<<"A", "=", "B", ",", "B", "=", "A">>)
  /\ build_info.env.dict = {<< <<"A">>, <<"B">> >>, << <<"B">>, <<"A">> >>}
  /\ pc = "run"

\* ------------------------------------------------------------ C11
\* C11: a ScriptEvaluator call starts one child process, never a second
\* one, and returns True when the child's exit code is 0 and False for
\* every other code, 69 and 96 included.
C11_ScriptVerdict ==
  (cls = "ScriptEvaluator" /\ calls >= 1) =>
    /\ children <= 1
    /\ pc = "idle" =>
         /\ children = 1
         /\ code # <<>>
         /\ (result = "True") <=> (code = <<0>>)
         /\ (result = "False") <=> (code # <<0>>)

\* C11 witness: the script ended with 69 and the call returned False
C11_Witness ==
  /\ cls = "ScriptEvaluator"
  /\ pc = "idle"
  /\ code = <<69>>
  /\ result = "False"
  /\ children = 1


C13_SilentBuildCompletes ==
  (BuildOver /\ delivered = <<>> /\ build_log = 0 /\ proc = "finished"
     /\ timeouts = 0 /\ intr = "none") =>
    /\ report = (IF exitcode = <<0>> THEN "success" ELSE "failed")
    /\ pc \in {"eval", "shell", "idle", "exited", "aborted"}
    /\ result # "AttributeError"

\* C14: constructing the build evaluator without a build configuration
\* (build_info None or empty) raises in __init__: no object exists, no
\* evaluate call can be made on it, and no default configuration is stored.
C14_NoConfigRejected ==
  (cls = "InteractiveBuildEvaluator" /\ ~arg.given) =>
    /\ pc = "noobj"
    /\ result = "AttributeError"
    /\ calls = 0
    /\ ~build_info.given
C14_Witness ==
  /\ cls = "InteractiveBuildEvaluator"
  /\ arg = NoBuildInfo
  /\ pc = "noobj"
  /\ result = "AttributeError"

\* ------------------------------------------------- builds with a clock
\* datetime.now() moves on while the build runs: one more whole second
\* since self.start_time
Tick ==
  /\ pc = "run"
  /\ elapsed < MaxTime
  /\ elapsed' = elapsed + 1
  /\ UNCHANGED <<pc, obj, fs, mon, call, result, calls, children, dots, drv>>

\* the builds of a build evaluator that run to their end, neither timed out
\* nor interrupted, with the time of every output line
NextClock ==
  \/ \E bi \in BuildInfos : NewInteractiveBuild(bi)
  \/ EvalCall
  \/ PdbContinue
  \/ Tick
  \/ \E line \in Lines, propagate \in BOOLEAN : OutputLine(line, propagate)
  \/ \E c \in BuildCodes : Finished(c)
  \/ WaitReturns
  \/ Launch
  \/ \E c \in {GOOD, BAD} : ShellExit(c)

SpecClock == Init /\ [][NextClock]_vars

\* C15: the '.' is written at a fixed cadence of wall-clock time and not per
\* line: after t whole seconds of a build at most one '.' per started
\* interval of Cadence seconds has been written, however many lines came.
C15_ProgressCadence ==
  (BuildClass /\ calls >= 1 /\ pc = "run") =>
    dots <= (elapsed \div Cadence) + 1

\* ------------------------------------------------ driver: arguments
\* str.startswith, str.endswith, `p in s`
startswith(s, p) == Len(p) <= Len(s) /\ SubSeq(s, 1, Len(p)) = p
endswith(s, p) ==
  Len(p) <= Len(s) /\ SubSeq(s, Len(s) - Len(p) + 1, Len(s)) = p
contains(s, p) ==
  \E i \in 1..(Len(s) + 1) :
    i + Len(p) - 1 <= Len(s) /\ SubSeq(s, i, i + Len(p) - 1) = p

\* str.partition(sep): the text before the first sep, sep, the text after
\* it; without sep in s: s and two empty strings
partition(s, sep) ==
  IF ~contains(s, sep)
    THEN <<s, <<>>, <<>>>>
    ELSE LET i == CHOOSE k \in 1..Len(s) :
                    /\ startswith(SubSeq(s, k, Len(s)), sep)
                    /\ \A j \in 1..(k - 1) :
                         ~startswith(SubSeq(s, j, Len(s)), sep)
         IN  <<SubSeq(s, 1, i - 1), sep, SubSeq(s, i + Len(sep), Len(s))>>

\* the separators and tokens of parse_arg and make_arg
uri_sep == <<"@">>
rev_sep == <<".", ".">>
lp_sep == <<"-", ">">>
HG == <<"H", "G">>
GIT == <<"G", "I", "T">>
DotGit == <<".", "g", "i", "t">>
GitScheme == <<"g", "i", "t", ":", "/", "/">>
git_urls ==
  {<<"g", "i", "t", "h", "u", "b", ".", "c", "o", "m">>,
   <<"c", "o", "d", "e", "a", "u", "r", "o", "r", "a", ".", "o", "r", "g">>,
   <<"l", "i", "n", "a", "r", "o", ".", "o", "r", "g">>,
   <<"g", "i", "t", ".", "m", "o", "z", "i", "l", "l", "a", ".", "o", "r", "g">>}
hg_urls == {<<"h", "g", ".", "m", "o", "z", "i", "l", "l", "a", ".", "o", "r", "g">>}
\* os.getcwd() and the directory the clones go to
Cwd == <<"/", "w">>
Repos == <<"r", "e", "p", "o", "s">>

\* name[:-4] when name ends with '.git'
StripGit(name) ==
  IF endswith(name, DotGit) THEN SubSeq(name, 1, Len(name) - 4) ELSE name
\* x.split('/')[-1], and the tail of os.path.split(x)
LastPart(x) == LET parts == split(x, "/") IN parts[Len(parts)]

\* os.path.join(a, b)
join(a, b) ==
  IF startswith(b, <<"/">>) THEN b
  ELSE IF a = <<>> \/ endswith(a, <<"/">>) THEN a \o b
  ELSE a \o <<"/">> \o b

local_path_to_name(lp) == StripGit(LastPart(lp))

\* urlparse.urlsplit(uri) for a uri without ':', '?' and '#' (no scheme,
\* query or fragment): the netloc is what follows a leading '//' up to the
\* next '/', the path is the rest
urlsplit(uri) ==
  IF startswith(uri, <<"/", "/">>)
    THEN LET p == partition(SubSeq(uri, 3, Len(uri)), <<"/">>)
         IN  [netloc |-> p[1], path |-> p[2] \o p[3]]
    ELSE [netloc |-> <<>>, path |-> uri]

uri_to_name(uri) ==
  LET uri_bits == urlsplit(uri)
      hp == partition(uri_bits.netloc, <<":">>)
      path_base == hp[3]
      path_full == IF path_base # <<>> THEN path_base \o uri_bits.path
                   ELSE uri_bits.path
  IN  StripGit(LastPart(path_full))

\* parse_arg lines 102-126: the vcs of an argument without a GIT or HG
\* token, "InvalidArg" where the clues contradict each other
GuessVcs(uri) ==
  LET git == \E y \in git_urls : contains(uri, y)
      hg == \E y \in hg_urls : contains(uri, y)
  IN  IF startswith(uri, GitScheme) \/ endswith(uri, DotGit)
        THEN IF hg THEN "InvalidArg" ELSE "git"
        ELSE IF git /\ hg THEN "InvalidArg"
        ELSE IF git THEN "git"
        ELSE IF hg THEN "hg"
        ELSE None

\* parse_arg(arg); exists is what os.path.exists(uri) answers
parse_arg(a, exists) ==
  LET token == IF startswith(a, HG) THEN "hg"
               ELSE IF startswith(a, GIT) THEN "git"
               ELSE None
      rest == IF token = "hg" THEN SubSeq(a, 3, Len(a))
              ELSE IF token = "git" THEN SubSeq(a, 4, Len(a))
              ELSE a
      p1 == partition(rest, uri_sep)
      p2 == partition(p1[3], rev_sep)
      p3 == partition(p1[1], lp_sep)
      remote == ~exists /\ contains(p1[1], lp_sep)
      uri == IF remote THEN p3[1] ELSE p1[1]
      local_path == IF exists THEN p1[1]
                    ELSE IF remote THEN p3[3]
                    ELSE join(join(Cwd, Repos), uri_to_name(uri))
      vcs == IF token # None THEN token ELSE GuessVcs(uri)
  IN  IF p1[2] # uri_sep \/ p2[2] # rev_sep \/ vcs \in {None, "InvalidArg"}
        THEN Raised("InvalidArg", NoArgData)
        ELSE Returned(ArgData(uri, local_path, local_path_to_name(local_path),
                              vcs, p2[1], p2[3]))

\* make_arg(arg_data)
make_arg(d) ==
  IF uri_to_name(d.local_path) # d.name \/ d.vcs \notin {"git", "hg"}
    THEN Raised("InvalidArg", <<>>)
    ELSE Returned((IF d.vcs = "git" THEN GIT ELSE HG)
                  \o (IF d.local_path # d.uri
                        THEN d.uri \o lp_sep \o d.local_path
                        ELSE d.local_path)
                  \o uri_sep \o d.good \o rev_sep \o d.bad)

\* arg = make_arg(arg_data)
MakeArg ==
  /\ made.err = "notcalled"
  /\ made' = make_arg(arg_data)
  /\ UNCHANGED <<pc, obj, fs, mon, call, result, calls, run, opts, arg_data,
                 parsed>>

\* parse_arg(arg) on the string make_arg returned
ParseArg(exists) ==
  /\ made.err = "none"
  /\ parsed.err = "notcalled"
  /\ parsed' = parse_arg(made.val, exists)
  /\ UNCHANGED <<pc, obj, fs, mon, call, result, calls, run, opts, arg_data,
                 made>>

\* the dictionaries handed to make_arg: clone URIs and local paths, among
\* them URIs that contain '@', '..' and '->'
Uris ==
  {<<"a", "/", "r">>,
   <<"a", "@", "a", "/", "r", ".", "g", "i", "t">>,
   <<"/", "/", "a", "/", "r", ".", "g", "i", "t">>,
   <<"a", "/", ".", ".", "/", "r">>,
   <<"a", "-", ">", "a", "/", "r">>}
LocalPaths ==
  {<<"/", "r">>,
   <<"a", "/", "r">>,
   <<"/", "w", "/", "r", "e", "p", "o", "s", "/", "r">>,
   <<"/", "r", ".", "g", "i", "t">>}
Names == {<<"r">>, <<"a">>}
Revs == {<<"g">>, <<"b">>}
ArgDatas ==
  {ArgData(u, lp, n, v, g, b) :
     u \in Uris \cup LocalPaths, lp \in LocalPaths, n \in Names,
     v \in {"git", "hg", None}, g \in Revs, b \in Revs}

InitArg ==
  /\ InitEvaluator
  /\ opts = NoOptions
  /\ arg_data \in ArgDatas
  /\ made = NotCalled(<<>>)
  /\ parsed = NotCalled(NoArgData)
NextArg == MakeArg \/ \E exists \in BOOLEAN : ParseArg(exists)
SpecArg == InitArg /\ [][NextArg]_vars

\* C16: whenever make_arg accepts a dictionary, parse_arg of the string it
\* returns gives that dictionary back: uri, local_path, name, vcs, good and
\* bad are all equal.
C16_RoundTrip ==
  (made.err = "none" /\ parsed.err # "notcalled") =>
    parsed = Returned(arg_data)


\* --------------------------------------------- driver: the evaluator
\* the truth value of an option: None and '' are false
Truthy(x) == x \notin {None, ""}
\* the same test for --build-env, whose value is kept as an env record
TruthyEnv(e) == e.kind = "str" /\ e.str # <<>>

\* main, lines 207-227: what the options select; "exit2" is parser.exit(2)
SelectEvaluator_BuildsAlone(o) ==
  IF Truthy(o.script) /\ o.interactive THEN "exit2"
  ELSE IF Truthy(o.script) /\ o.do_builds THEN "exit2"
  ELSE IF Truthy(o.script) THEN "ScriptEvaluator"
  ELSE IF o.do_builds THEN "InteractiveBuildEvaluator"
  ELSE "InteractiveEvaluator"
SelectEvaluator(o) ==
  IF Truthy(o.script) /\ o.interactive THEN "exit2"
  ELSE IF Truthy(o.script) /\ o.do_builds THEN "exit2"
  ELSE IF Truthy(o.script) THEN "ScriptEvaluator"
  ELSE IF o.interactive /\ o.do_builds THEN "InteractiveBuildEvaluator"
  ELSE "InteractiveEvaluator"

\* lines 218-224: the dictionary handed to InteractiveBuildEvaluator; every
\* key is present, None unless its option is given (the working directory
\* is not part of the evaluator's modelled state)
BuildInfoOf(o) ==
  BuildInfo(IF Truthy(o.build_logdir) THEN o.build_logdir ELSE None,
            IF TruthyEnv(o.build_env) THEN o.build_env ELSE EnvNone)

\* main from the parsed options to the constructed evaluator
Main ==
  /\ pc = "new"
  /\ LET selected == SelectEvaluator(opts)
     IN  IF selected = "exit2"
           THEN /\ pc' = "exit2"
                /\ UNCHANGED <<obj, fs, mon, call, result, calls, run, drv>>
         ELSE IF selected = "ScriptEvaluator" THEN NewScript
         ELSE IF selected = "InteractiveBuildEvaluator"
           THEN NewInteractiveBuild(BuildInfoOf(opts))
         ELSE NewInteractive

\* the command lines: --script absent, empty or a file; -i, -b; the three
\* build options absent or given
OptionSets ==
  {Options(sc, i, b, wd, ld, e) :
     sc \in {None, "", "test.sh"}, i \in BOOLEAN, b \in BOOLEAN,
     wd \in {None, "work"}, ld \in {None, "logs"},
     e \in {EnvNone, EnvStr(EnvAB), EnvStr(<<"A">>)}}

InitMain ==
  /\ InitEvaluator
  /\ opts \in OptionSets
  /\ arg_data = NoArgData
  /\ made = NotCalled(<<>>)
  /\ parsed = NotCalled(NoArgData)
NextMain == Main
SpecMain == InitMain /\ [][NextMain]_vars

\* C17: once main has chosen, the choice is the table of the three flags:
\* script with -i or with -b exits with status 2 and constructs nothing,
\* script alone gives ScriptEvaluator, -i with -b gives
\* InteractiveBuildEvaluator, everything else (-b alone included) gives
\* InteractiveEvaluator; the build evaluator is chosen only with -i and -b.
C17_EvaluatorSelection ==
  pc # "new" =>
    LET s == opts.script \notin {None, ""}
        i == opts.interactive
        b == opts.do_builds
    IN  /\ (s /\ (i \/ b)) => (pc = "exit2" /\ cls = None)
        /\ (s /\ ~i /\ ~b) => (pc = "idle" /\ cls = "ScriptEvaluator")
        /\ (~s /\ i /\ b) => cls = "InteractiveBuildEvaluator"
        /\ (~s /\ ~(i /\ b)) => (pc = "idle" /\ cls = "InteractiveEvaluator")
        /\ pc \in {"exit2", "idle", "noobj"}
C17_Witness ==
  /\ opts.script = None
  /\ opts.do_builds
  /\ ~opts.interactive
  /\ pc = "idle"
  /\ cls = "InteractiveEvaluator"

====
